---- MODULE Spec2Model ----
(***************************************************************************)
(* The Agent managed-resource adapter of provider-harness: the connector   *)
(* (Connect) and the external client (Observe, Create, Update, Delete) of  *)
(* internal/controller/agent/agent.go, together with the earlier revision  *)
(* of Observe and Create kept in unnamed/part_001, driven by a reconciler  *)
(* that may call them in any order, against a remote agent service that    *)
(* may fail and may be changed out of band.                                *)
(***************************************************************************)
EXTENDS Integers, Sequences, FiniteSets, TLC

\* --------------------------------------------------------------- constants
errNotAgent == "managed resource is not a Agent custom resource"
errTrackPCUsage == "cannot track ProviderConfig usage"
errGetPC == "cannot get ProviderConfig"
errGetCreds == "cannot get credentials"
errNewClient == "cannot create new Service"

\* net/http status codes the adapter compares against.
StatusNotFound == 404
StatusCreated == 201

\* nextgen.HEALTHY_Servicev1HealthStatus, the sentinel Observe compares with.
HEALTHY_Servicev1HealthStatus == "HEALTHY"

\* The values of nextgen.Servicev1HealthStatus the model draws from: the
\* sentinel and one value that is not the sentinel.
HealthStatuses == {"HEALTHY", "UNHEALTHY"}

\* ------------------------------------------------------- optional values
\* A Go pointer field: Nil, or a pointer to a value.
Nil == <<>>
Ptr(v) == <<v>>
Deref(p) == p[1]
Opt(S) == {Nil} \cup {Ptr(v) : v \in S}

\* ------------------------------------------------------------------ errors
\* An error is the chain of its messages, outermost first; nil is empty.
NoError == <<>>
New(msg) == <<msg>>
Wrap(err, msg) == <<msg>> \o err

\* ------------------------------------------------------- managed resource
Identifiers == {"agent1"}
Accounts == {"acct1"}
Projects == {"proj1"}
Orgs == {"org1"}
Descriptions == {"desc1"}

\* AgentParameters as agent.go reads them (pointer fields).
AgentParameters ==
    [Identifier : Opt(Identifiers),
     AccountIdentifier : Opt(Accounts),
     ProjectIdentifier : Opt(Projects),
     OrgIdentifier : Opt(Orgs),
     Description : Opt(Descriptions)]

\* xpv1.Available(): the Ready condition with status True.
Available == [Type |-> "Ready", Status |-> "True", Reason |-> "Available"]

\* xpv1.ConditionedStatus.SetConditions: replace the condition of the same
\* type, or append it.
SetConditions(conds, c) ==
    IF \E i \in 1..Len(conds) : conds[i].Type = c.Type
    THEN [i \in 1..Len(conds) |-> IF conds[i].Type = c.Type THEN c ELSE conds[i]]
    ELSE Append(conds, c)

EmptyStatus == [conditions |-> <<>>, atProvider |-> [State |-> ""]]

\* A v1alpha1.Agent named "example" referring to provider config "example".
Agent(params) ==
    [kind |-> "Agent",
     name |-> "example",
     spec |-> [providerConfigRef |-> "example", forProvider |-> params],
     status |-> EmptyStatus]

\* A managed resource of another kind: the type assertion mg.(*Agent) fails.
OtherManaged ==
    [kind |-> "Other",
     name |-> "example",
     spec |-> [providerConfigRef |-> "example",
               forProvider |-> [Identifier |-> Nil, AccountIdentifier |-> Nil,
                                ProjectIdentifier |-> Nil, OrgIdentifier |-> Nil,
                                Description |-> Nil]],
     status |-> EmptyStatus]

Managed == {Agent(p) : p \in AgentParameters} \cup {OtherManaged}

\* AgentParameters as part_001 reads them (plain strings, part_000): an
\* omitted field is the empty string.
StringField(p) == IF p = Nil THEN "" ELSE Deref(p)

\* ---------------------------------------------------------- remote service
\* The remote store: agents keyed by identifier and account identifier, each
\* with the description it was created with and its health.
Lookup(rem, identifier, account) ==
    {a \in rem : a.identifier = identifier /\ a.accountIdentifier = account}

\* What can go wrong with one remote call, apart from not-found.
Faults == {"none", "network", "unauthorized", "server"}

\* The (agent, response, err) triple of an SDK call. status 0 is a nil
\* response; health Nil is an agent without health information (the zero
\* V1Agent the SDK returns with an error included).
NoReply == [err |-> NoError, status |-> -1, health |-> Nil]

FaultReply(fault) ==
    CASE fault = "network" ->
            [err |-> New("network"), status |-> 0, health |-> Nil]
      [] fault = "unauthorized" ->
            [err |-> New("401 Unauthorized"), status |-> 401, health |-> Nil]
      [] fault = "server" ->
            [err |-> New("500 Internal Server Error"), status |-> 500, health |-> Nil]

\* AgentApi.AgentServiceForServerGet(ctx, identifier, accountIdentifier, opts)
AgentServiceForServerGet(rem, identifier, account, fault) ==
    IF fault # "none" THEN FaultReply(fault)
    ELSE LET found == Lookup(rem, identifier, account) IN
         IF found = {}
         THEN [err |-> New("404 Not Found"), status |-> StatusNotFound, health |-> Nil]
         ELSE [err |-> NoError, status |-> 200,
               health |-> (CHOOSE a \in found : TRUE).health]

\* AgentApi.AgentServiceForServerCreate(ctx, body): on success the service
\* stores the agent under the payload's identifier and account identifier,
\* with the health it assigns, and answers with the status it chooses.
AgentServiceForServerCreate(rem, body, fault, health, status) ==
    IF fault # "none" THEN [reply |-> FaultReply(fault), remote |-> rem]
    ELSE [reply |-> [err |-> NoError, status |-> status, health |-> health],
          remote |-> (rem \ Lookup(rem, body.Identifier, body.AccountIdentifier))
                     \cup {[identifier |-> body.Identifier,
                            accountIdentifier |-> body.AccountIdentifier,
                            description |-> body.Description,
                            health |-> health]}]

\* Statuses the service answers a successful create with.
CreateStatuses == {200, StatusCreated}

\* How the service can treat one create request: a fault, or success with
\* the health it assigns and the status it answers with.
CreateOutcomes ==
    [fault : Faults \ {"none"}, health : {Nil}, status : {0}]
    \cup [fault : {"none"}, health : Opt(HealthStatuses), status : CreateStatuses]

\* ------------------------------------------------- the result of one call
\* managed.ExternalObservation{}
NoObservation == [ResourceExists |-> FALSE, ResourceUpToDate |-> FALSE]

\* One request sent to the remote service; a get carries only the two
\* identifiers, the other fields are empty.
GetRequest(identifier, account) ==
    [api |-> "get", Identifier |-> identifier, AccountIdentifier |-> account,
     ProjectIdentifier |-> "", OrgIdentifier |-> "", Name |-> "", Description |-> ""]

CreateRequest(body) ==
    [api |-> "create", Identifier |-> body.Identifier,
     AccountIdentifier |-> body.AccountIdentifier,
     ProjectIdentifier |-> body.ProjectIdentifier,
     OrgIdentifier |-> body.OrgIdentifier, Name |-> body.Name,
     Description |-> body.Description]

\* A call that returns the zero result and a nil error, having sent nothing
\* and written nothing: mg and remote are the resource and the remote store
\* when the call ends. details is the ConnectionDetails map of the result
\* ("nil" or "empty"), client whether Connect returned an external client,
\* steps the steps Connect ran, each with the error it ended with.
Returned(mg, rem) ==
    [outcome |-> "returned", err |-> NoError, obs |-> NoObservation,
     details |-> "nil", client |-> FALSE, steps |-> <<>>, requests |-> <<>>,
     reply |-> NoReply, mg |-> mg, remote |-> rem]

\* log.Fatal / log.Fatalln: the process exits, the call returns nothing,
\* and what it wrote to the resource in memory is lost with the process.
Fatal(mg, run) ==
    [run EXCEPT !.outcome = "fatal", !.err = NoError, !.obs = NoObservation,
                !.details = "nil", !.mg = mg]

\* A nil pointer dereference: the call panics and returns nothing.
Panic(mg, run) ==
    [run EXCEPT !.outcome = "panic", !.err = NoError, !.obs = NoObservation,
                !.details = "nil", !.mg = mg]

\* The deferred closure of Observe and Create: close the body of a non-nil
\* response, and log.Fatal when closing fails. It runs on return and on
\* panic alike.
DeferredClose(mg, run, closeErr) ==
    IF run.reply.status # 0 /\ closeErr THEN Fatal(mg, run) ELSE run

\* ------------------------------------------------------------- connector
Step(name, err) == [step |-> name, err |-> err]

\* Connect as it would be if the credential extractor's error were dropped.
Connect_IgnoresCredsError(mg, rem, trackErr, getErr, credsErr, newErr) ==
    LET r == Returned(mg, rem)
        track == <<Step("Track", trackErr)>>
        get == Append(track, Step("GetProviderConfig", getErr))
        creds == Append(get, Step("ExtractCredentials", credsErr))
        new == Append(creds, Step("NewService", newErr))
    IN
    IF mg.kind # "Agent" THEN [r EXCEPT !.err = New(errNotAgent)]
    ELSE IF trackErr # NoError
    THEN [r EXCEPT !.steps = track, !.err = Wrap(trackErr, errTrackPCUsage)]
    ELSE IF getErr # NoError
    THEN [r EXCEPT !.steps = get, !.err = Wrap(getErr, errGetPC)]
    ELSE IF newErr # NoError
    THEN [r EXCEPT !.steps = new, !.err = Wrap(newErr, errNewClient)]
    ELSE [r EXCEPT !.steps = new, !.client = TRUE]

Connect(mg, rem, trackErr, getErr, credsErr, newErr) ==
    LET r == Returned(mg, rem)
        track == <<Step("Track", trackErr)>>
        get == Append(track, Step("GetProviderConfig", getErr))
        creds == Append(get, Step("ExtractCredentials", credsErr))
        new == Append(creds, Step("NewService", newErr))
    IN
    IF mg.kind # "Agent" THEN [r EXCEPT !.err = New(errNotAgent)]
    ELSE IF trackErr # NoError
    THEN [r EXCEPT !.steps = track, !.err = Wrap(trackErr, errTrackPCUsage)]
    ELSE IF getErr # NoError
    THEN [r EXCEPT !.steps = get, !.err = Wrap(getErr, errGetPC)]
    ELSE IF credsErr # NoError
    THEN [r EXCEPT !.steps = creds, !.err = Wrap(credsErr, errGetCreds)]
    ELSE IF newErr # NoError
    THEN [r EXCEPT !.steps = new, !.err = Wrap(newErr, errNewClient)]
    ELSE [r EXCEPT !.steps = new, !.client = TRUE]

\* -------------------------------------------------------- external client
\* LookupFailed as it would be if only a missing response counted as absent.
LookupFailed_NilResponseOnly(reply) == reply.status = 0

\* LookupFailed as it would be if only a 404 answer counted as absent and
\* the lookup's error were ignored.
LookupFailed_NotFoundOnly(reply) == reply.status = StatusNotFound

\* The test Observe makes on the lookup's result to report the agent absent.
LookupFailed(reply) ==
    reply.err # NoError \/ (reply.status # 0 /\ reply.status = StatusNotFound)

\* The observation Observe returns for an absent agent.
ObservedAbsent == [ResourceExists |-> FALSE, ResourceUpToDate |-> FALSE]

\* ObservedPresent as it would be if Observe left the up-to-date flag unset.
ObservedPresent_NotUpToDate == [ResourceExists |-> TRUE, ResourceUpToDate |-> FALSE]

\* The observation Observe returns for an agent the lookup found.
ObservedPresent == [ResourceExists |-> TRUE, ResourceUpToDate |-> TRUE]

\* MarkAvailable as it would be if the comparison were inverted.
MarkAvailable_Inverted(mg, health) ==
    IF health # HEALTHY_Servicev1HealthStatus
    THEN [mg EXCEPT !.status.conditions = SetConditions(@, Available)]
    ELSE mg

\* Observe's use of the health of the agent found: the Available condition
\* is set when it is the HEALTHY sentinel.
MarkAvailable(mg, health) ==
    IF health = HEALTHY_Servicev1HealthStatus
    THEN [mg EXCEPT !.status.conditions = SetConditions(@, Available)]
    ELSE mg

Observe(mg, rem, fault, closeErr) ==
    LET r == Returned(mg, rem) IN
    IF mg.kind # "Agent" THEN [r EXCEPT !.err = New(errNotAgent)]
    ELSE
    LET fp == mg.spec.forProvider
        identifier == IF fp.Identifier # Nil THEN Deref(fp.Identifier) ELSE ""
    IN
    IF fp.AccountIdentifier = Nil THEN Fatal(mg, r)
    ELSE
    LET account == Deref(fp.AccountIdentifier)
        reply == AgentServiceForServerGet(rem, identifier, account, fault)
        called == [r EXCEPT !.requests = <<GetRequest(identifier, account)>>,
                            !.reply = reply]
    IN
    DeferredClose(mg,
        IF LookupFailed(reply) THEN [called EXCEPT !.obs = ObservedAbsent]
        ELSE IF reply.health = Nil THEN Panic(mg, called)
        ELSE [called EXCEPT !.mg = MarkAvailable(mg, Deref(reply.health)),
                            !.obs = ObservedPresent],
        closeErr)

\* CreateBody as it would be if the spec fields were never copied.
CreateBody_AllEmpty(mg) ==
    [AccountIdentifier |-> "", ProjectIdentifier |-> "", OrgIdentifier |-> "",
     Identifier |-> "", Name |-> mg.name, Description |-> ""]

\* The creation payload Create builds from the resource.
CreateBody(mg) ==
    LET fp == mg.spec.forProvider
        accountIdentifier ==
            IF fp.AccountIdentifier # Nil THEN Deref(fp.AccountIdentifier) ELSE ""
        projectIndentifier ==
            IF fp.ProjectIdentifier # Nil THEN Deref(fp.ProjectIdentifier) ELSE ""
        orgIdentifier ==
            IF fp.OrgIdentifier # Nil THEN Deref(fp.OrgIdentifier) ELSE ""
        description ==
            IF fp.Description # Nil THEN Deref(fp.Description) ELSE ""
    IN [AccountIdentifier |-> accountIdentifier,
        ProjectIdentifier |-> projectIndentifier,
        OrgIdentifier |-> orgIdentifier,
        Identifier |-> "",
        Name |-> mg.name,
        Description |-> description]

\* WriteState as it would be if the health were written to the desired spec
\* instead of the observed status.
WriteState_IntoSpec(mg, health) ==
    [mg EXCEPT !.spec.forProvider.Description = Ptr(health)]

\* Create's write of the created agent's health to the observed status.
WriteState(mg, health) == [mg EXCEPT !.status.atProvider.State = health]

Create(mg, rem, fault, health, status, closeErr) ==
    LET r == Returned(mg, rem) IN
    IF mg.kind # "Agent" THEN [r EXCEPT !.err = New(errNotAgent)]
    ELSE
    LET body == CreateBody(mg)
        res == AgentServiceForServerCreate(rem, body, fault, health, status)
        called == [r EXCEPT !.requests = <<CreateRequest(body)>>,
                            !.reply = res.reply, !.remote = res.remote]
    IN
    DeferredClose(mg,
        IF res.reply.err # NoError THEN [called EXCEPT !.err = res.reply.err]
        ELSE IF res.reply.health = Nil THEN Panic(mg, called)
        ELSE [called EXCEPT !.mg = WriteState(mg, Deref(res.reply.health)),
                            !.details = "empty"],
        closeErr)

\* Update as it would be with the type assertion the other calls make.
Update_TypeChecked(mg, rem) ==
    IF mg.kind # "Agent" THEN [Returned(mg, rem) EXCEPT !.err = New(errNotAgent)]
    ELSE [Returned(mg, rem) EXCEPT !.details = "empty"]

Update(mg, rem) == Returned(mg, rem)

\* Delete as it would be if it deleted the remote agent.
Delete_RemovesAgent(mg, rem) ==
    IF mg.kind # "Agent" THEN [Returned(mg, rem) EXCEPT !.err = New(errNotAgent)]
    ELSE LET identifier == StringField(mg.spec.forProvider.Identifier)
             account == StringField(mg.spec.forProvider.AccountIdentifier)
         IN [Returned(mg, rem) EXCEPT
                !.requests = <<[GetRequest(identifier, account) EXCEPT !.api = "delete"]>>,
                !.remote = rem \ Lookup(rem, identifier, account)]

Delete(mg, rem) ==
    IF mg.kind # "Agent" THEN [Returned(mg, rem) EXCEPT !.err = New(errNotAgent)]
    ELSE Returned(mg, rem)

\* ------------------------------------- external client, earlier revision
Observe_part001(mg, rem, fault) ==
    LET r == Returned(mg, rem) IN
    IF mg.kind # "Agent" THEN [r EXCEPT !.err = New(errNotAgent)]
    ELSE
    LET fp == mg.spec.forProvider
        identifier == StringField(fp.Identifier)
        account == StringField(fp.AccountIdentifier)
        reply == AgentServiceForServerGet(rem, identifier, account, fault)
        called == [r EXCEPT !.requests = <<GetRequest(identifier, account)>>,
                            !.reply = reply]
    IN
    IF reply.status = 0 THEN Panic(mg, called)
    ELSE IF reply.status = StatusNotFound
    THEN [called EXCEPT !.obs = ObservedAbsent]
    ELSE IF reply.health = Nil THEN Panic(mg, called)
    ELSE [called EXCEPT !.mg = MarkAvailable(mg, Deref(reply.health)),
                        !.obs = ObservedPresent,
                        !.details = "empty"]

Create_part001(mg, rem, fault, health, status) ==
    LET r == Returned(mg, rem) IN
    IF mg.kind # "Agent" THEN [r EXCEPT !.err = New(errNotAgent)]
    ELSE
    LET body == [AccountIdentifier |-> "", ProjectIdentifier |-> "",
                 OrgIdentifier |-> "", Identifier |-> "", Name |-> "",
                 Description |-> ""]
        res == AgentServiceForServerCreate(rem, body, fault, health, status)
        called == [r EXCEPT !.requests = <<CreateRequest(body)>>,
                            !.reply = res.reply, !.remote = res.remote]
    IN
    IF res.reply.err # NoError THEN [called EXCEPT !.err = res.reply.err]
    ELSE IF res.reply.status # StatusCreated
    THEN [called EXCEPT !.err = New("Agent could not be created")]
    ELSE IF res.reply.health = Nil THEN Panic(mg, called)
    ELSE [called EXCEPT !.mg = WriteState(mg, Deref(res.reply.health)),
                        !.details = "empty"]

\* ------------------------------------------------------------------ state
VARIABLES
    cr,        \* the managed resource handed to the adapter
    remote,    \* the remote store of agents
    external,  \* the external client of the current pass: "nil" or "svc"
    proc,      \* the controller process: "running" or "exited"
    last       \* the most recent call of the adapter and how it ended

vars == <<cr, remote, external, proc, last>>

NoCall ==
    [op |-> "none", rev |-> "none", outcome |-> "none",
     err |-> NoError, obs |-> NoObservation, details |-> "nil",
     client |-> FALSE, steps |-> <<>>, requests |-> <<>>, reply |-> NoReply]

Init ==
    /\ cr \in Managed
    /\ remote = {}
    /\ external = "nil"
    /\ proc = "running"
    /\ last = NoCall

\* The call op of revision rev ended as run says. A panic ends the process
\* unless the reconciler recovers it; log.Fatal always ends it.
Finish(op, rev, run) ==
    /\ last' = [op |-> op, rev |-> rev, outcome |-> run.outcome, err |-> run.err,
                obs |-> run.obs, details |-> run.details, client |-> run.client,
                steps |-> run.steps, requests |-> run.requests,
                reply |-> run.reply]
    /\ cr' = run.mg
    /\ remote' = run.remote
    /\ \E recover \in (IF run.outcome = "panic" THEN BOOLEAN ELSE {TRUE}) :
          proc' = IF run.outcome = "fatal" \/ (run.outcome = "panic" /\ ~recover)
                  THEN "exited" ELSE "running"
    /\ external' = IF proc' = "exited" THEN "nil"
                   ELSE IF op = "Connect"
                        THEN (IF run.client THEN "svc" ELSE "nil")
                        ELSE external

\* What Connect's collaborators answer: each of the four steps succeeds or
\* fails; a step after the first failing one is never asked.
ConnectOutcomes ==
    {o \in [track : {NoError, New("usage")}, get : {NoError, New("not found")},
            creds : {NoError, New("secret")}, new : {NoError, New("client")}] :
        /\ o.track # NoError => o.get = NoError
        /\ o.get # NoError => o.creds = NoError
        /\ o.creds # NoError => o.new = NoError}

CallConnect ==
    /\ proc = "running"
    /\ \E o \in ConnectOutcomes :
          Finish("Connect", "agent.go",
                 Connect(cr, remote, o.track, o.get, o.creds, o.new))

\* Observe and Create of an Agent go through c.service, which Connect set.
HasService == cr.kind = "Agent" => external = "svc"

CallObserve ==
    /\ proc = "running"
    /\ HasService
    /\ \E fault \in Faults, closeErr \in BOOLEAN :
          Finish("Observe", "agent.go", Observe(cr, remote, fault, closeErr))

CallCreate ==
    /\ proc = "running"
    /\ HasService
    /\ \E o \in CreateOutcomes, closeErr \in BOOLEAN :
          Finish("Create", "agent.go",
                 Create(cr, remote, o.fault, o.health, o.status, closeErr))

CallUpdate ==
    /\ proc = "running"
    /\ Finish("Update", "agent.go", Update(cr, remote))

CallDelete ==
    /\ proc = "running"
    /\ Finish("Delete", "agent.go", Delete(cr, remote))

CallObserve_part001 ==
    /\ proc = "running"
    /\ HasService
    /\ \E fault \in Faults :
          Finish("Observe", "part_001", Observe_part001(cr, remote, fault))

CallCreate_part001 ==
    /\ proc = "running"
    /\ HasService
    /\ \E o \in CreateOutcomes :
          Finish("Create", "part_001",
                 Create_part001(cr, remote, o.fault, o.health, o.status))

\* The key under which the resource's agent is looked up.
ObservedKey(mg) ==
    [identifier |-> StringField(mg.spec.forProvider.Identifier),
     accountIdentifier |-> StringField(mg.spec.forProvider.AccountIdentifier)]

\* Somebody else creates the resource's agent in the remote service (with
\* no description), or changes its health. Agents the adapter never looks
\* up are left out.
RemoteProvision ==
    /\ proc = "running"
    /\ \E h \in HealthStatuses :
          LET a == [identifier |-> ObservedKey(cr).identifier,
                    accountIdentifier |-> ObservedKey(cr).accountIdentifier,
                    description |-> "",
                    health |-> Ptr(h)] IN
          /\ a \notin remote
          /\ remote' = (remote \ Lookup(remote, a.identifier, a.accountIdentifier))
                       \cup {a}
    /\ UNCHANGED <<cr, external, proc, last>>

\* Somebody else deletes an agent from the remote service.
RemoteRemove ==
    /\ proc = "running"
    /\ \E a \in remote : remote' = remote \ {a}
    /\ UNCHANGED <<cr, external, proc, last>>

Next ==
    \/ CallConnect
    \/ CallObserve
    \/ CallCreate
    \/ CallUpdate
    \/ CallDelete
    \/ CallObserve_part001
    \/ CallCreate_part001
    \/ RemoteProvision
    \/ RemoteRemove

Spec == Init /\ [][Next]_vars

\* ================================================================ claims
HasCondition(mg, c) ==
    \E i \in 1..Len(mg.status.conditions) : mg.status.conditions[i] = c

\* The most recent call was Observe and it sent its lookup.
Observed == last.op = "Observe" /\ last.requests # <<>>

\* C1: when the lookup made by Observe is answered with 404 Not Found,
\* Observe does not panic, and when it returns it reports
\* ResourceExists=false with a nil error (the only other way it ends is
\* log.Fatal on a response body that fails to close).
C1_NotFoundReportsAbsent ==
    (Observed /\ last.reply.status = StatusNotFound)
        => /\ last.outcome \in {"returned", "fatal"}
           /\ last.outcome = "returned"
                => (last.obs.ResourceExists = FALSE /\ last.err = NoError)

C1_Witness ==
    /\ Observed
    /\ last.rev = "agent.go"
    /\ last.reply.status = StatusNotFound
    /\ last.outcome = "returned"
    /\ last.obs.ResourceExists = FALSE
    /\ last.err = NoError

\* C2: when the lookup made by Observe succeeds with health HEALTHY and
\* Observe returns, the resource carries the Available condition and
\* Observe reports ResourceExists=true with a nil error.
C2_HealthyIsAvailable ==
    (Observed /\ last.reply.err = NoError
              /\ last.reply.health = Ptr(HEALTHY_Servicev1HealthStatus))
        => /\ last.outcome \in {"returned", "fatal"}
           /\ last.outcome = "returned"
                => /\ HasCondition(cr, Available)
                   /\ last.obs.ResourceExists = TRUE
                   /\ last.err = NoError

C2_Witness ==
    /\ Observed
    /\ last.rev = "agent.go"
    /\ last.reply.err = NoError
    /\ last.reply.health = Ptr(HEALTHY_Servicev1HealthStatus)
    /\ last.outcome = "returned"
    /\ HasCondition(cr, Available)

\* The remote agent the resource refers to differs from the desired spec.
Drifted ==
    \E a \in Lookup(remote, ObservedKey(cr).identifier,
                    ObservedKey(cr).accountIdentifier) :
        a.description # StringField(cr.spec.forProvider.Description)

\* C3: no call reports ResourceExists=true together with
\* ResourceUpToDate=false, whatever the desired spec and the remote state.
C3_ExistsImpliesUpToDate ==
    last.obs.ResourceExists = TRUE => last.obs.ResourceUpToDate = TRUE

C3_Witness ==
    /\ Observed
    /\ last.rev = "agent.go"
    /\ last.outcome = "returned"
    /\ last.obs.ResourceExists = TRUE
    /\ last.obs.ResourceUpToDate = TRUE
    /\ Drifted

\* "" for an unset optional field, its value otherwise.
ValueOrEmpty(p) == IF p = Nil THEN "" ELSE p[1]

\* C4: Create (agent.go) on an Agent sends exactly one creation request;
\* each optional field of the payload is the empty string when the spec
\* field is unset and the spec field's value when it is set; and Create
\* fails only as the remote call does: an error it returns is the remote
\* error, a panic needs an answer without health, log.Fatal needs a response.
C4_PayloadFromOptionalFields ==
    (last.op = "Create" /\ last.rev = "agent.go" /\ cr.kind = "Agent") =>
        LET fp == cr.spec.forProvider
            req == last.requests[1]
        IN /\ Len(last.requests) = 1
           /\ req.api = "create"
           /\ req.AccountIdentifier = ValueOrEmpty(fp.AccountIdentifier)
           /\ req.ProjectIdentifier = ValueOrEmpty(fp.ProjectIdentifier)
           /\ req.OrgIdentifier = ValueOrEmpty(fp.OrgIdentifier)
           /\ req.Description = ValueOrEmpty(fp.Description)
           /\ last.err # NoError => last.err = last.reply.err
           /\ last.outcome = "panic" =>
                (last.reply.err = NoError /\ last.reply.health = Nil)
           /\ last.outcome = "fatal" => last.reply.status # 0

C4_Witness ==
    /\ last.op = "Create" /\ last.rev = "agent.go" /\ cr.kind = "Agent"
    /\ cr.spec.forProvider.AccountIdentifier = Nil
    /\ cr.spec.forProvider.ProjectIdentifier = Nil
    /\ cr.spec.forProvider.OrgIdentifier = Nil
    /\ cr.spec.forProvider.Description = Nil
    /\ last.outcome = "returned"
    /\ last.err = NoError
    /\ Len(last.requests) = 1
    /\ last.requests[1].AccountIdentifier = ""
    /\ last.requests[1].ProjectIdentifier = ""
    /\ last.requests[1].OrgIdentifier = ""
    /\ last.requests[1].Description = ""

\* The remote create call of the call l succeeded: it returned no error.
CreateSucceeded(l) == l.reply.err = NoError

\* C5 as claimed: when the remote create call made by Create succeeds and
\* Create returns, the observed status state is the health of the agent the
\* call returned; when the remote create call fails, Create leaves the
\* observed status state as it was and, when it returns, returns the remote
\* error unchanged.
C5_CreateCopiesHealthOrPropagates ==
    [][(last'.op = "Create" /\ last'.requests # <<>>) =>
          /\ (CreateSucceeded(last') /\ last'.outcome = "returned") =>
                last'.reply.health = Ptr(cr'.status.atProvider.State)
          /\ ~CreateSucceeded(last') =>
                /\ cr'.status.atProvider.State = cr.status.atProvider.State
                /\ last'.outcome = "returned" => last'.err = last'.reply.err]_vars

\* C6: Update, for a resource of any kind and any remote state, returns the
\* empty result and a nil error, sends nothing to the remote service, and
\* leaves the resource and the remote store as they were.
C6_UpdateIsNoOp ==
    [][last'.op = "Update" =>
          /\ last'.outcome = "returned"
          /\ last'.err = NoError
          /\ last'.details = "nil"
          /\ last'.obs = NoObservation
          /\ last'.requests = <<>>
          /\ last' # last => (cr' = cr /\ remote' = remote)]_vars

C6_Witness ==
    /\ last.op = "Update"
    /\ cr.kind = "Other"
    /\ remote # {}
    /\ last.outcome = "returned"
    /\ last.err = NoError

\* C7 as claimed: Delete returns a nil error for whatever managed resource
\* it is given, sends nothing, and leaves the remote store as it was.
C7_DeleteAlwaysNil ==
    [][last'.op = "Delete" =>
          /\ last'.outcome = "returned"
          /\ last'.err = NoError
          /\ last'.requests = <<>>
          /\ last' # last => remote' = remote]_vars

\* C7 as amended: Delete sends nothing and leaves the remote store and the
\* resource as they were for any input; it returns a nil error for every
\* Agent, whether or not the remote agent exists, and the error errNotAgent
\* for a managed resource that is not an Agent.
C7_DeleteNoRemoteCall ==
    [][last'.op = "Delete" =>
          /\ last'.outcome = "returned"
          /\ last'.err = (IF cr'.kind = "Agent" THEN NoError ELSE New(errNotAgent))
          /\ last'.requests = <<>>
          /\ last' # last => (remote' = remote /\ cr' = cr)]_vars

C7_Witness ==
    /\ last.op = "Delete"
    /\ cr.kind = "Agent"
    /\ last.outcome = "returned"
    /\ last.err = NoError
    /\ Lookup(remote, ObservedKey(cr).identifier,
              ObservedKey(cr).accountIdentifier) # {}

\* The order of Connect's steps, and the message each failure is wrapped in.
ConnectOrder == <<"Track", "GetProviderConfig", "ExtractCredentials", "NewService">>

ConnectMessage == <<errTrackPCUsage, errGetPC, errGetCreds, errNewClient>>

\* C8: Connect runs usage tracking, configuration lookup, credential
\* extraction and client construction in this order, each only after all
\* before it succeeded; the failure of a step ends Connect with that step's
\* error wrapped in the step's message and with no external client (so an
\* unresolvable secret gives errGetCreds and no client is constructed); an
\* external client is returned exactly when all four steps succeeded.
C8_ConnectStopsAtFirstFailure ==
    last.op = "Connect" =>
        LET n == Len(last.steps) IN
        /\ last.outcome = "returned"
        /\ n <= 4
        /\ \A i \in 1..n : last.steps[i].step = ConnectOrder[i]
        /\ \A i \in 1..(n - 1) : last.steps[i].err = NoError
        /\ IF n > 0 /\ last.steps[n].err # NoError
           THEN /\ ~last.client
                /\ last.err = <<ConnectMessage[n]>> \o last.steps[n].err
           ELSE IF n = 4
           THEN last.client /\ last.err = NoError
           ELSE n = 0 /\ ~last.client /\ last.err = <<errNotAgent>>

C8_Witness ==
    /\ last.op = "Connect"
    /\ Len(last.steps) = 3
    /\ last.steps[3].step = "ExtractCredentials"
    /\ last.steps[3].err # NoError
    /\ ~last.client
    /\ last.err[1] = errGetCreds
    /\ external = "nil"

\* C9: no step changes the desired spec, the kind or the name of the
\* resource: the adapter writes only its status.
C9_SpecNeverMutated ==
    [][cr'.spec = cr.spec /\ cr'.kind = cr.kind /\ cr'.name = cr.name]_vars

C9_Witness ==
    /\ cr.status.atProvider.State # ""
    /\ HasCondition(cr, Available)
    /\ last.op = "Delete"

\* C10 as claimed: after an Observe whose lookup succeeded (exists=true),
\* the observed status state is the health that lookup returned.
C10_ObserveOverwritesState ==
    (Observed /\ last.outcome = "returned" /\ last.obs.ResourceExists = TRUE)
        => cr.status.atProvider.State = last.reply.health[1]

\* C11: whenever the lookup made by Observe (agent.go) returns an error, be
\* it a network failure without response or an answer such as 401 or 500,
\* Observe does not panic and leaves the resource as it was (no condition,
\* no status), and when it returns it reports ResourceExists=false with a
\* nil error, never the remote error.
C11_LookupErrorReportsAbsent ==
    [][(/\ last'.op = "Observe"
        /\ last'.rev = "agent.go"
        /\ last'.requests # <<>>
        /\ last'.reply.err # NoError) =>
          /\ last'.outcome \in {"returned", "fatal"}
          /\ cr' = cr
          /\ last'.outcome = "returned" =>
                (last'.obs = NoObservation /\ last'.err = NoError)]_vars

C11_Witness ==
    /\ Observed
    /\ last.rev = "agent.go"
    /\ last.reply.err # NoError
    /\ last.reply.status = 500
    /\ last.outcome = "returned"
    /\ last.obs.ResourceExists = FALSE
    /\ last.err = NoError
    /\ cr.status.atProvider.State = "HEALTHY"
    /\ ~HasCondition(cr, Available)

\* The most recent call was agent.go's Create, it succeeded against the
\* remote service and returned, for a resource with a non-empty spec
\* identifier, and the agent it created is still in the remote store.
CreatedAndKept ==
    /\ last.op = "Create"
    /\ last.rev = "agent.go"
    /\ last.outcome = "returned"
    /\ last.err = NoError
    /\ cr.spec.forProvider.Identifier # Nil
    /\ cr.spec.forProvider.Identifier[1] # ""
    /\ Lookup(remote, last.requests[1].Identifier,
              last.requests[1].AccountIdentifier) # {}

\* C12 as claimed: once Create has succeeded for a resource with a
\* non-empty spec identifier, and the created agent is still in the remote
\* store, the next Observe, when the lookup meets no remote fault and
\* Observe returns, looks the agent up under the key it was created with
\* and reports ResourceExists=true.
C12_ObserveFindsCreatedAgent ==
    [][(/\ CreatedAndKept
        /\ last'.op = "Observe"
        /\ last'.rev = "agent.go"
        /\ last'.outcome = "returned"
        /\ last'.reply.status \in {200, StatusNotFound}) =>
          /\ last'.requests[1].Identifier = last.requests[1].Identifier
          /\ last'.requests[1].AccountIdentifier = last.requests[1].AccountIdentifier
          /\ last'.obs.ResourceExists = TRUE]_vars

\* C13 as claimed: every call of Observe or Create (agent.go) on an Agent
\* returns to the reconciler with a result or an error; none ends the
\* process instead.
C13_CallsAlwaysReturn ==
    (last.op \in {"Observe", "Create"} /\ last.rev = "agent.go" /\ cr.kind = "Agent")
        => last.outcome = "returned"

====
